---------------------------- MODULE Spec2Model ----------------------------
(***************************************************************************)
(* A model of the passport_photo package: the standard registry            *)
(* (standards.py), the sheet layout (sheet.py), the crop geometry and the  *)
(* photo pipeline (processing.py).                                         *)
(*                                                                         *)
(* An image is modelled by its size <<width, height>>; pixel contents play *)
(* no part in any property checked here.  Python's None is the empty       *)
(* sequence and a present optional value v is the one-element sequence     *)
(* <<v>>.  A string is a sequence of one-character strings.                *)
(***************************************************************************)
EXTENDS Integers, Sequences, FiniteSets, TLC

VARIABLES
    registry,      \* standards.STANDARDS, the module-level dict
    r_pc,          \* get_standard: "idle" | "returned" | "raised"
    r_code,        \* get_standard: the argument `code` (optional string)
    r_result,      \* get_standard: the value returned or the error raised
    s_pc,          \* sheet: control location
    s_caller,      \* sheet: "direct" (_generate_positions) | "sheet" (create_passport_sheet)
    s_args,        \* sheet: arguments of _generate_positions
    s_req,         \* sheet: arguments of create_passport_sheet
    s_x,           \* sheet: local x of _generate_positions
    s_y,           \* sheet: local y of _generate_positions
    s_positions,   \* sheet: local positions of _generate_positions
    s_pasted,      \* sheet: the positions canvas.paste was called with, in order
    s_result,      \* sheet: the value returned or the error raised
    c_pc,          \* crop geometry: "idle" | "returned" | "raised"
    c_call,        \* crop geometry: the function called and its arguments
    c_result,      \* crop geometry: the value returned or the error raised
    p_pc,          \* prepare_passport_photo: control location
    p_req,         \* prepare_passport_photo: its arguments
    p_detected,    \* prepare_passport_photo: what the face detector did (optional)
    p_suggestion,  \* prepare_passport_photo: local suggestion
    p_cropped,     \* prepare_passport_photo: local cropped (optional image)
    p_calls,       \* prepare_passport_photo: the calls made so far, in order
    p_result       \* prepare_passport_photo: the value returned or the error raised

regVars == <<r_pc, r_code, r_result>>
sheetVars == <<s_pc, s_caller, s_args, s_req, s_x, s_y, s_positions, s_pasted, s_result>>
cropVars == <<c_pc, c_call, c_result>>
pipeVars == <<p_pc, p_req, p_detected, p_suggestion, p_cropped, p_calls, p_result>>

None == <<>>
Some(v) == <<v>>
IsNone(o) == o = <<>>
Val(o) == o[1]

Min(a, b) == IF a <= b THEN a ELSE b
Max(a, b) == IF a >= b THEN a ELSE b

(***************************************************************************)
(* Characters and str.lower()                                              *)
(***************************************************************************)
LowerLetters == {"a", "d", "i", "k", "n", "s", "u", "z"}
UpperLetters == {"A", "D", "I", "K", "N", "S", "U", "Z"}
Alphabet == LowerLetters \cup UpperLetters

\* ord(c) for the characters of the alphabet
CharCode(c) ==
    CASE c = "A" -> 65  [] c = "D" -> 68  [] c = "I" -> 73  [] c = "K" -> 75
      [] c = "N" -> 78  [] c = "S" -> 83  [] c = "U" -> 85  [] c = "Z" -> 90
      [] c = "a" -> 97  [] c = "d" -> 100 [] c = "i" -> 105 [] c = "k" -> 107
      [] c = "n" -> 110 [] c = "s" -> 115 [] c = "u" -> 117 [] c = "z" -> 122

\* chr(n) restricted to the alphabet
CharOf(n) == CHOOSE c \in Alphabet : CharCode(c) = n

\* str.lower() of one character: 'A'..'Z' move up by 32, the rest stay
LowerChar(c) == IF CharCode(c) >= 65 /\ CharCode(c) <= 90 THEN CharOf(CharCode(c) + 32) ELSE c

\* str.lower()
StrLower(s) == [i \in 1..Len(s) |-> LowerChar(s[i])]

\* s < t in Python's string order (lexicographic by code point)
StrLess(s, t) ==
    \E i \in 1..(Len(t)) :
        /\ i <= Len(s) + 1
        /\ \A j \in 1..(i - 1) : s[j] = t[j]
        /\ \/ i = Len(s) + 1
           \/ i <= Len(s) /\ CharCode(s[i]) < CharCode(t[i])

\* sorted(S) for a finite set of strings
SortedStrs(S) ==
    CHOOSE q \in [1..Cardinality(S) -> S] :
        /\ \A i, j \in 1..Cardinality(S) : i < j => StrLess(q[i], q[j])

(***************************************************************************)
(* standards.py                                                            *)
(***************************************************************************)
\* PassportSheetConfig(), the dataclass defaults
PassportSheetConfig ==
    [canvas_size |-> <<1200, 1800>>, margin_px |-> 60, default_copies |-> 4]

KeyUs == <<"u", "s">>
KeyIndia == <<"i", "n", "d", "i", "a">>
KeyUk == <<"u", "k">>

\* The registry.  face_padding is the decimal literal of the source as the
\* fraction pad_num / pad_den (1.7 = 17/10, 1.9 = 19/10).
STANDARDS ==
    (KeyUs :> [code |-> KeyUs, width_px |-> 600, height_px |-> 600, dpi |-> 300,
               pad_num |-> 17, pad_den |-> 10, sheet |-> PassportSheetConfig])
    @@ (KeyIndia :> [code |-> KeyIndia, width_px |-> 600, height_px |-> 600, dpi |-> 300,
                     pad_num |-> 17, pad_den |-> 10, sheet |-> PassportSheetConfig])
    @@ (KeyUk :> [code |-> KeyUk, width_px |-> 413, height_px |-> 531, dpi |-> 300,
                  pad_num |-> 19, pad_den |-> 10, sheet |-> PassportSheetConfig])

DEFAULT_STANDARD_CODE == KeyUs
DEFAULT_STANDARD == STANDARDS[DEFAULT_STANDARD_CODE]

\* PassportStandard.size
StdSize(std) == <<std.width_px, std.height_px>>

\* A mutant of get_standard: the lookup key is the code as given
get_standard_no_lower(reg, code) ==
    IF IsNone(code) \/ Val(code) = <<>>
    THEN [kind |-> "ok", value |-> DEFAULT_STANDARD]
    ELSE IF Val(code) \notin DOMAIN reg
         THEN [kind |-> "KeyError", code |-> Val(code), available |-> SortedStrs(DOMAIN reg)]
         ELSE [kind |-> "ok", value |-> reg[Val(code)]]

\* get_standard(code), reading the registry reg
get_standard(reg, code) ==
    IF IsNone(code) \/ Val(code) = <<>>
    THEN [kind |-> "ok", value |-> DEFAULT_STANDARD]
    ELSE LET key == StrLower(Val(code)) IN
         IF key \notin DOMAIN reg
         THEN [kind |-> "KeyError", code |-> Val(code), available |-> SortedStrs(DOMAIN reg)]
         ELSE [kind |-> "ok", value |-> reg[key]]


(***************************************************************************)
(* Calls of get_standard                                                   *)
(***************************************************************************)
MaxCodeLen == 2

\* Strings over the alphabet of length at most n
StrsUpTo(n) == UNION {[1..k -> Alphabet] : k \in 0..n}

UpperChar(c) == IF CharCode(c) >= 97 /\ CharCode(c) <= 122 THEN CharOf(CharCode(c) - 32) ELSE c

\* Every spelling of s in upper and lower case letters
CaseVariants(s) ==
    {[i \in 1..Len(s) |-> IF i \in U THEN UpperChar(s[i]) ELSE s[i]] : U \in SUBSET (1..Len(s))}

\* The arguments get_standard is called with: None, short strings, and the
\* spellings of the registry keys
CodeInputs ==
    {None} \cup {Some(s) : s \in StrsUpTo(MaxCodeLen) \cup UNION {CaseVariants(k) : k \in DOMAIN STANDARDS}}

NoResult == [kind |-> "none"]

CallGetStandard ==
    /\ r_pc = "idle"
    /\ \E code \in CodeInputs :
         LET res == get_standard(registry, code) IN
         /\ r_code' = code
         /\ r_result' = res
         /\ r_pc' = IF res.kind = "ok" THEN "returned" ELSE "raised"
    /\ UNCHANGED registry

ReturnGetStandard ==
    /\ r_pc \in {"returned", "raised"}
    /\ r_pc' = "idle"
    /\ r_code' = None
    /\ r_result' = NoResult
    /\ UNCHANGED registry

(***************************************************************************)
(* sheet.py                                                                *)
(***************************************************************************)
MaxCanvas == 6
MaxPhoto == 3
MaxMargin == 2
MaxCopies == 5

NoArgs == [canvas_size |-> <<0, 0>>, photo_size |-> <<0, 0>>, copies |-> 0, margin_px |-> 0]
NoReq == [photo |-> <<0, 0>>, copies |-> None, standard |-> KeyUs]

\* Arguments of direct calls of _generate_positions
PositionArgs ==
    [canvas_size : (1..MaxCanvas) \X (1..MaxCanvas),
     photo_size : (1..MaxPhoto) \X (1..MaxPhoto),
     copies : 0..MaxCopies,
     margin_px : 0..MaxMargin]

\* Photos handed to create_passport_sheet: the registered sizes and one that
\* matches no standard
SheetPhotos == {<<600, 600>>, <<413, 531>>, <<500, 500>>}

SheetRequests ==
    [photo : SheetPhotos,
     copies : {None} \cup {Some(n) : n \in 0..MaxCopies},
     standard : DOMAIN STANDARDS]

\* `copies or sheet_cfg.default_copies`: None and 0 are falsy
target_copies(copies, sheet_cfg) ==
    IF IsNone(copies) \/ Val(copies) = 0 THEN sheet_cfg.default_copies ELSE Val(copies)

\* _generate_positions is entered by a direct call
CallGeneratePositions ==
    /\ s_pc = "idle"
    /\ \E a \in PositionArgs :
         /\ s_args' = a
         /\ s_caller' = "direct"
         /\ s_pc' = "gp_check"
    /\ s_positions' = <<>>
    /\ UNCHANGED <<s_req, s_x, s_y, s_pasted, s_result>>

\* create_passport_sheet up to its call of _generate_positions (lines 51-61)
CallCreatePassportSheet ==
    /\ s_pc = "idle"
    /\ \E q \in SheetRequests :
         LET standard == registry[q.standard]
             sheet_cfg == standard.sheet
         IN
         /\ s_req' = q
         /\ s_caller' = "sheet"
         /\ IF q.photo # StdSize(standard)
            THEN /\ s_pc' = "raised"
                 /\ s_result' = [kind |-> "ValueError", what |-> "size_mismatch"]
                 /\ UNCHANGED <<s_args, s_positions>>
            ELSE /\ s_pc' = "gp_check"
                 /\ s_args' = [canvas_size |-> sheet_cfg.canvas_size,
                               photo_size |-> q.photo,
                               copies |-> target_copies(q.copies, sheet_cfg),
                               margin_px |-> sheet_cfg.margin_px]
                 /\ s_positions' = <<>>
                 /\ UNCHANGED s_result
    /\ UNCHANGED <<s_x, s_y, s_pasted>>

\* Line 26: the photo against the canvas
PhotoLargerThanCanvas(a) ==
    a.photo_size[1] > a.canvas_size[1] \/ a.photo_size[2] > a.canvas_size[2]

\* Lines 26-29
GPCheckSize ==
    /\ s_pc = "gp_check"
    /\ IF PhotoLargerThanCanvas(s_args)
       THEN /\ s_pc' = "raised"
            /\ s_result' = [kind |-> "ValueError", what |-> "photo_larger_than_canvas"]
            /\ UNCHANGED s_y
       ELSE /\ s_pc' = "gp_outer"
            /\ s_y' = s_args.margin_px
            /\ UNCHANGED s_result
    /\ UNCHANGED <<s_caller, s_args, s_req, s_x, s_positions, s_pasted>>

\* Line 30, first conjunct
RowFits(a, y) == y + a.photo_size[2] <= a.canvas_size[2] - a.margin_px

\* The mutant of ColFits: the right margin is not kept free
ColFitsNoMargin(a, x) == x + a.photo_size[1] <= a.canvas_size[1]

\* Line 32, first conjunct
ColFits(a, x) == x + a.photo_size[1] <= a.canvas_size[1] - a.margin_px

\* Lines 30-31: the test of the outer loop
GPOuterTest ==
    /\ s_pc = "gp_outer"
    /\ IF RowFits(s_args, s_y) /\ Len(s_positions) < s_args.copies
       THEN /\ s_x' = s_args.margin_px
            /\ s_pc' = "gp_inner"
       ELSE /\ s_pc' = "gp_after"
            /\ UNCHANGED s_x
    /\ UNCHANGED <<s_caller, s_args, s_req, s_y, s_positions, s_pasted, s_result>>

\* The mutant of NextX: cells are packed without the gap between them
NextXNoGap(a, x) == x + a.photo_size[1] - 1

\* Line 34
NextX(a, x) == x + a.photo_size[1] + a.margin_px

\* Line 35
NextY(a, y) == y + a.photo_size[2] + a.margin_px

\* Lines 32-35: one test of the inner loop, with its body or the row's end
GPInnerStep ==
    /\ s_pc = "gp_inner"
    /\ IF ColFits(s_args, s_x) /\ Len(s_positions) < s_args.copies
       THEN /\ s_positions' = Append(s_positions, <<s_x, s_y>>)
            /\ s_x' = NextX(s_args, s_x)
            /\ UNCHANGED <<s_y, s_pc>>
       ELSE /\ s_y' = NextY(s_args, s_y)
            /\ s_pc' = "gp_outer"
            /\ UNCHANGED <<s_x, s_positions>>
    /\ UNCHANGED <<s_caller, s_args, s_req, s_pasted, s_result>>

\* Lines 37-40; a direct call returns here, create_passport_sheet goes on
GPFinish ==
    /\ s_pc = "gp_after"
    /\ IF s_positions = <<>>
       THEN /\ s_pc' = "raised"
            /\ s_result' = [kind |-> "ValueError", what |-> "unable_to_place_any"]
       ELSE IF s_caller = "direct"
            THEN /\ s_pc' = "returned"
                 /\ s_result' = [kind |-> "ok", what |-> "positions"]
            ELSE /\ s_pc' = "paste"
                 /\ UNCHANGED s_result
    /\ UNCHANGED <<s_caller, s_args, s_req, s_x, s_y, s_positions, s_pasted>>

\* Line 63: range(min(target_copies, len(positions)))
PasteCount(copies, positions) == Min(copies, Len(positions))

\* Lines 63-68: the paste loop, the DPI tag and the return
PasteAndReturn ==
    /\ s_pc = "paste"
    /\ LET n == PasteCount(s_args.copies, s_positions) IN
       IF n <= Len(s_positions)
       THEN /\ s_pasted' = [i \in 1..n |-> s_positions[i]]
            /\ s_pc' = "returned"
            /\ s_result' = [kind |-> "ok", what |-> "sheet",
                            size |-> s_args.canvas_size,
                            dpi |-> registry[s_req.standard].dpi]
       ELSE /\ s_pasted' = s_positions
            /\ s_pc' = "raised"
            /\ s_result' = [kind |-> "IndexError", what |-> "positions"]
    /\ UNCHANGED <<s_caller, s_args, s_req, s_x, s_y, s_positions>>

ReturnSheet ==
    /\ s_pc \in {"returned", "raised"}
    /\ s_pc' = "idle"
    /\ s_caller' = "direct"
    /\ s_args' = NoArgs
    /\ s_req' = NoReq
    /\ s_x' = 0
    /\ s_y' = 0
    /\ s_positions' = <<>>
    /\ s_pasted' = <<>>
    /\ s_result' = NoResult

(***************************************************************************)
(* processing.py: crop geometry                                            *)
(*                                                                         *)
(* The floating-point values of suggest_crop are modelled by exact         *)
(* fractions [n, d] with d > 0.  round() is Python's: to the nearest       *)
(* integer, a tie to the even one.  Double precision differs from the      *)
(* exact value only in the direction a tie is rounded, and only for some   *)
(* face sizes (e.g. "uk", w = 30); for every face in FaceBoxes the boxes    *)
(* computed here are the ones the source computes in double precision.     *)
(***************************************************************************)
RECURSIVE GCD(_, _)
GCD(a, b) == IF b = 0 THEN a ELSE GCD(b, a % b)

Frac(n, d) == LET g == GCD(n, d) IN [n |-> n \div g, d |-> d \div g]

\* a * b, cancelling across before multiplying
FracMul(a, b) ==
    LET g1 == GCD(a.n, b.d)
        g2 == GCD(b.n, a.d)
    IN [n |-> (a.n \div g1) * (b.n \div g2), d |-> (a.d \div g2) * (b.d \div g1)]

FracHalf(a) == IF a.n % 2 = 0 THEN [n |-> a.n \div 2, d |-> a.d] ELSE [n |-> a.n, d |-> 2 * a.d]

\* a >= b
FracGeq(a, b) == a.n * b.d >= b.n * a.d

\* max(a, b): the first argument unless the second is larger
FracMax(a, b) == IF FracGeq(a, b) THEN a ELSE b

\* The mutant of PyRound: truncation toward minus infinity
PyRoundFloor(n, d) == n \div d

\* int(round(n / d)) for d > 0
PyRound(n, d) ==
    LET q == n \div d
        r == n - q * d
    IN IF 2 * r < d THEN q
       ELSE IF 2 * r > d THEN q + 1
       ELSE IF q % 2 = 0 THEN q ELSE q + 1

\* PassportStandard.aspect_ratio
AspectRatio(std) == Frac(std.width_px, std.height_px)

\* CropSuggestion.to_tuple(): <<left, top, right, bottom>>
Box(l, t, r, b) == <<l, t, r, b>>
BoxWidth(box) == box[3] - box[1]
BoxHeight(box) == box[4] - box[2]

\* Line 63: max(faces, key=area), the first face of the largest area
LargestFace(faces) ==
    LET area(f) == f.w * f.h
        i == CHOOSE i \in 1..Len(faces) :
                 /\ \A j \in 1..Len(faces) : area(faces[j]) <= area(faces[i])
                 /\ \A j \in 1..(i - 1) : area(faces[j]) < area(faces[i])
    IN faces[i]

\* Lines 68-71: target_height
TargetHeight(face, std) ==
    LET padding == Frac(std.pad_num, std.pad_den) IN
    FracMax(FracMul(Frac(face.h, 1), padding),
            FracMul(FracMul(Frac(face.w, 1), padding), Frac(std.height_px, std.width_px)))

\* Line 72: target_width
TargetWidth(face, std) == FracMul(TargetHeight(face, std), AspectRatio(std))

\* Lines 63-80 (suggest_crop): the box around the face before it is clamped to the image
UnclampedBox(face, std) ==
    LET center_x == face.x + face.w \div 2
        center_y == face.y + face.h \div 2
        half_width == FracHalf(TargetWidth(face, std))
        half_height == FracHalf(TargetHeight(face, std))
    IN Box(PyRound(center_x * half_width.d - half_width.n, half_width.d),
           PyRound(center_y * half_height.d - half_height.n, half_height.d),
           PyRound(center_x * half_width.d + half_width.n, half_width.d),
           PyRound(center_y * half_height.d + half_height.n, half_height.d))

\* Lines 83-88 on one axis: a negative low edge moves the box to 0
ShiftToZero(lo, hi) == IF lo < 0 THEN <<0, hi - lo>> ELSE <<lo, hi>>

\* The mutant of ShiftInside: the high edge is cut to the image, the low edge stays
ShiftInsideCutting(lo, hi, extent) == IF hi > extent THEN <<lo, extent>> ELSE <<lo, hi>>

\* Lines 90-97 on one axis: a high edge beyond the image moves the box back
ShiftInside(lo, hi, extent) ==
    IF hi > extent THEN <<lo - (hi - extent), hi - (hi - extent)>> ELSE <<lo, hi>>

\* The mutant of FloorAtZero: the final floor is left out
FloorAtZeroMissing(lo, hi) == <<lo, hi>>

\* Lines 99-100 on one axis
FloorAtZero(lo, hi) == <<Max(lo, 0), hi>>

\* Lines 83-100 on one axis, in the order of the source
ClampAxis(lo, hi, extent) ==
    LET a == ShiftToZero(lo, hi)
        b == ShiftInside(a[1], a[2], extent)
    IN FloorAtZero(b[1], b[2])

\* Lines 83-100
ClampToImage(box, image) ==
    LET h == ClampAxis(box[1], box[3], image[1])
        v == ClampAxis(box[2], box[4], image[2])
    IN Box(h[1], v[1], h[2], v[2])

\* suggest_crop on the faces the detector returned for the image
suggest_crop(image, faces, std) ==
    IF Len(faces) = 0
    THEN None
    ELSE Some(ClampToImage(UnclampedBox(LargestFace(faces), std), image))

\* Image.crop(box).size
ImageCropSize(box) == <<BoxWidth(box), BoxHeight(box)>>

\* ImageOps.fit(image, size).size: the image is scaled to cover size and its
\* centred overflow cut off
ImageOpsFit(image, size) == size

\* The mutant of CropTooSmall: both dimensions must fall short
CropTooSmallBoth(size, std) == size[1] < std.width_px /\ size[2] < std.height_px

\* Line 115: width < target_width or height < target_height
CropTooSmall(size, std) == size[1] < std.width_px \/ size[2] < std.height_px

\* The mutant of ImageTooSmall: only the height is compared
ImageTooSmallHeightOnly(size, std) == size[2] < std.height_px

\* Line 42: width < target_width or height < target_height
ImageTooSmall(size, std) == size[1] < std.width_px \/ size[2] < std.height_px

\* crop_image
crop_image(image, crop_box, std) ==
    LET cropped == ImageCropSize(crop_box) IN
    IF CropTooSmall(cropped, std)
    THEN [kind |-> "ValueError", what |-> "crop_too_small", resampled |-> FALSE]
    ELSE [kind |-> "ok", size |-> ImageOpsFit(cropped, StdSize(std)), resampled |-> TRUE]

\* validate_image_size
validate_image_size(image, std) ==
    IF ImageTooSmall(image, std)
    THEN [kind |-> "ValueError", what |-> "input_too_small"]
    ELSE [kind |-> "ok"]

(***************************************************************************)
(* The inputs of the crop geometry and of the pipeline                     *)
(***************************************************************************)
MaxFaceGrid == 4

\* Image sizes: below every standard, exactly "uk", narrower than "us", exactly
\* "us", landscape, large
ImageSizes == {<<400, 400>>, <<413, 531>>, <<500, 700>>, <<600, 600>>, <<900, 600>>, <<1000, 1200>>}

\* Corners and sides of the face boxes; the detector is run with minSize 150
FaceOrigins == {0, 1, 37} \cup {150 * k : k \in 1..MaxFaceGrid}
FaceSides == {150, 151, 290, 353, 400}

\* A face of 200x200 at (100, 120)
ScenarioFace == [x |-> 100, y |-> 120, w |-> 200, h |-> 200]

\* The boxes a detector can report inside the image
FaceBoxes(image) ==
    {f \in [x : FaceOrigins, y : FaceOrigins, w : FaceSides, h : FaceSides] \cup {ScenarioFace} :
        f.x + f.w <= image[1] /\ f.y + f.h <= image[2]}

\* The second boxes of two-face results
SecondFaces(image) == {f \in FaceBoxes(image) : f.x = 0 /\ f.y \in {0, 37} /\ f.w = f.h /\ f.w \in {151, 353}}

\* What the detector can return for the image: no face, one face, two faces
DetectorResults(image) ==
    {<<>>} \cup {<<f>> : f \in FaceBoxes(image)}
           \cup {<<f, g>> : f \in SecondFaces(image), g \in SecondFaces(image)}

\* Crop boxes, well-formed (left <= right, top <= bottom), in and out of the image
BoxOrigins == {-10, 0, 50}
BoxSides == {0, 412, 413, 530, 531, 599, 600, 700}
CropBoxes == {Box(l, t, l + w, t + h) : l \in BoxOrigins, t \in BoxOrigins, w \in BoxSides, h \in BoxSides}

NoCall == [op |-> "none"]

\* A direct call of suggest_crop: the detector runs inside it
CallSuggestCrop ==
    /\ c_pc = "idle"
    /\ \E image \in ImageSizes, k \in DOMAIN STANDARDS :
         \E faces \in DetectorResults(image) :
            /\ c_call' = [op |-> "suggest_crop", image |-> image, faces |-> faces, standard |-> k]
            /\ c_result' = [kind |-> "ok", value |-> suggest_crop(image, faces, registry[k])]
            /\ c_pc' = "returned"

\* A direct call of crop_image
CallCropImage ==
    /\ c_pc = "idle"
    /\ \E image \in ImageSizes, k \in DOMAIN STANDARDS, box \in CropBoxes :
         LET res == crop_image(image, box, registry[k]) IN
         /\ c_call' = [op |-> "crop_image", image |-> image, box |-> box, standard |-> k]
         /\ c_result' = res
         /\ c_pc' = IF res.kind = "ok" THEN "returned" ELSE "raised"

ReturnCrop ==
    /\ c_pc \in {"returned", "raised"}
    /\ c_pc' = "idle"
    /\ c_call' = NoCall
    /\ c_result' = NoResult

(***************************************************************************)
(* processing.py: prepare_passport_photo                                   *)
(***************************************************************************)
\* The crop boxes callers pass to prepare_passport_photo
PipelineBoxes == {b \in CropBoxes : b[1] >= 0 /\ b[2] >= 0}

PrepareRequests ==
    [op : {"prepare_passport_photo"},
     image : ImageSizes,
     crop_box : {None} \cup {Some(b) : b \in PipelineBoxes},
     auto_crop : BOOLEAN,
     standard : DOMAIN STANDARDS]

\* What the face detector (cv2 CascadeClassifier.detectMultiScale) can do
\* with the image: return a list of faces, or raise
DetectorOutcomes(image) ==
    {[kind |-> "raise"]} \cup {[kind |-> "faces", faces |-> fs] : fs \in DetectorResults(image)}

\* What the background segmenter (rembg.remove) can do: return or raise
SegmenterOutcomes == {"ok", "raise"}

\* The mutant of CropBranch: auto_crop is tested before crop_box
CropBranchAutoFirst(crop_box, auto_crop) ==
    IF auto_crop THEN "auto"
    ELSE IF ~IsNone(crop_box) THEN "explicit"
    ELSE "fit"

\* Lines 151-160: the branch of the if / elif / else
CropBranch(crop_box, auto_crop) ==
    IF ~IsNone(crop_box) THEN "explicit"
    ELSE IF auto_crop THEN "auto"
    ELSE "fit"

CallPrepare ==
    /\ p_pc = "idle"
    /\ \E q \in PrepareRequests : p_req' = q
    /\ p_pc' = "validate"
    /\ UNCHANGED <<p_detected, p_suggestion, p_cropped, p_calls, p_result>>

\* Line 147
PValidate ==
    /\ p_pc = "validate"
    /\ p_calls' = Append(p_calls, "validate_image_size")
    /\ LET res == validate_image_size(p_req.image, registry[p_req.standard]) IN
       IF res.kind = "ok"
       THEN p_pc' = "crop" /\ UNCHANGED p_result
       ELSE p_pc' = "raised" /\ p_result' = res
    /\ UNCHANGED <<p_req, p_detected, p_suggestion, p_cropped>>

\* Lines 151-152: the explicit crop box
PCropExplicit ==
    /\ p_pc = "crop"
    /\ CropBranch(p_req.crop_box, p_req.auto_crop) = "explicit"
    /\ p_calls' = Append(p_calls, "crop_image")
    /\ LET res == crop_image(p_req.image, Val(p_req.crop_box), registry[p_req.standard]) IN
       IF res.kind = "ok"
       THEN p_pc' = "segment" /\ p_cropped' = Some(res.size) /\ UNCHANGED p_result
       ELSE p_pc' = "raised" /\ p_result' = res /\ UNCHANGED p_cropped
    /\ UNCHANGED <<p_req, p_detected, p_suggestion>>

\* Lines 153-154: suggest_crop, which runs the face detector; what the
\* detector raises is caught nowhere
PSuggestCrop ==
    /\ p_pc = "crop"
    /\ CropBranch(p_req.crop_box, p_req.auto_crop) = "auto"
    /\ p_calls' = p_calls \o <<"suggest_crop", "detector">>
    /\ \E d \in DetectorOutcomes(p_req.image) :
         /\ p_detected' = Some(d)
         /\ IF d.kind = "raise"
            THEN /\ p_pc' = "raised"
                 /\ p_result' = [kind |-> "DetectorError", what |-> "detector_failed"]
                 /\ UNCHANGED p_suggestion
            ELSE /\ p_pc' = "suggested"
                 /\ p_suggestion' = suggest_crop(p_req.image, d.faces, registry[p_req.standard])
                 /\ UNCHANGED p_result
    /\ UNCHANGED <<p_req, p_cropped>>

\* Lines 155-158: the suggestion is cropped, or the whole image fitted
PCropSuggested ==
    /\ p_pc = "suggested"
    /\ IF ~IsNone(p_suggestion)
       THEN /\ p_calls' = Append(p_calls, "crop_image")
            /\ LET res == crop_image(p_req.image, Val(p_suggestion), registry[p_req.standard]) IN
               IF res.kind = "ok"
               THEN p_pc' = "segment" /\ p_cropped' = Some(res.size) /\ UNCHANGED p_result
               ELSE p_pc' = "raised" /\ p_result' = res /\ UNCHANGED p_cropped
       ELSE /\ p_calls' = Append(p_calls, "fit")
            /\ p_cropped' = Some(ImageOpsFit(p_req.image, StdSize(registry[p_req.standard])))
            /\ p_pc' = "segment"
            /\ UNCHANGED p_result
    /\ UNCHANGED <<p_req, p_detected, p_suggestion>>

\* Lines 159-160: neither a crop box nor auto_crop
PFitWhole ==
    /\ p_pc = "crop"
    /\ CropBranch(p_req.crop_box, p_req.auto_crop) = "fit"
    /\ p_calls' = Append(p_calls, "fit")
    /\ p_cropped' = Some(ImageOpsFit(p_req.image, StdSize(registry[p_req.standard])))
    /\ p_pc' = "segment"
    /\ UNCHANGED <<p_req, p_detected, p_suggestion, p_result>>

\* Line 162: remove_background, which runs the segmenter
PRemoveBackground ==
    /\ p_pc = "segment"
    /\ p_calls' = Append(p_calls, "segmenter")
    /\ \E o \in SegmenterOutcomes :
         IF o = "ok"
         THEN p_pc' = "dpi" /\ UNCHANGED p_result
         ELSE p_pc' = "raised" /\ p_result' = [kind |-> "SegmenterError", what |-> "segmenter_failed"]
    /\ UNCHANGED <<p_req, p_detected, p_suggestion, p_cropped>>

\* Lines 164-165: the DPI tag and the return
PTagDpiAndReturn ==
    /\ p_pc = "dpi"
    /\ p_calls' = Append(p_calls, "dpi")
    /\ p_result' = [kind |-> "ok", size |-> Val(p_cropped), dpi |-> registry[p_req.standard].dpi]
    /\ p_pc' = "returned"
    /\ UNCHANGED <<p_req, p_detected, p_suggestion, p_cropped>>

ReturnPrepare ==
    /\ p_pc \in {"returned", "raised"}
    /\ p_pc' = "idle"
    /\ p_req' = NoCall
    /\ p_detected' = None
    /\ p_suggestion' = None
    /\ p_cropped' = None
    /\ p_calls' = <<>>
    /\ p_result' = NoResult

vars == <<registry, regVars, sheetVars, cropVars, pipeVars>>

Init ==
    /\ registry = STANDARDS
    /\ r_pc = "idle"
    /\ r_code = None
    /\ r_result = NoResult
    /\ s_pc = "idle"
    /\ s_caller = "direct"
    /\ s_args = NoArgs
    /\ s_req = NoReq
    /\ s_x = 0
    /\ s_y = 0
    /\ s_positions = <<>>
    /\ s_pasted = <<>>
    /\ s_result = NoResult
    /\ c_pc = "idle"
    /\ c_call = NoCall
    /\ c_result = NoResult
    /\ p_pc = "idle"
    /\ p_req = NoCall
    /\ p_detected = None
    /\ p_suggestion = None
    /\ p_cropped = None
    /\ p_calls = <<>>
    /\ p_result = NoResult

NextRegistry ==
    \/ CallGetStandard /\ UNCHANGED <<sheetVars, cropVars, pipeVars>>
    \/ ReturnGetStandard /\ UNCHANGED <<sheetVars, cropVars, pipeVars>>

NextSheet ==
    \/ CallGeneratePositions /\ UNCHANGED <<registry, regVars, cropVars, pipeVars>>
    \/ CallCreatePassportSheet /\ UNCHANGED <<registry, regVars, cropVars, pipeVars>>
    \/ GPCheckSize /\ UNCHANGED <<registry, regVars, cropVars, pipeVars>>
    \/ GPOuterTest /\ UNCHANGED <<registry, regVars, cropVars, pipeVars>>
    \/ GPInnerStep /\ UNCHANGED <<registry, regVars, cropVars, pipeVars>>
    \/ GPFinish /\ UNCHANGED <<registry, regVars, cropVars, pipeVars>>
    \/ PasteAndReturn /\ UNCHANGED <<registry, regVars, cropVars, pipeVars>>
    \/ ReturnSheet /\ UNCHANGED <<registry, regVars, cropVars, pipeVars>>

NextCrop ==
    \/ CallSuggestCrop /\ UNCHANGED <<registry, regVars, sheetVars, pipeVars>>
    \/ CallCropImage /\ UNCHANGED <<registry, regVars, sheetVars, pipeVars>>
    \/ ReturnCrop /\ UNCHANGED <<registry, regVars, sheetVars, pipeVars>>

NextPipeline ==
    \/ CallPrepare /\ UNCHANGED <<registry, regVars, sheetVars, cropVars>>
    \/ PValidate /\ UNCHANGED <<registry, regVars, sheetVars, cropVars>>
    \/ PCropExplicit /\ UNCHANGED <<registry, regVars, sheetVars, cropVars>>
    \/ PSuggestCrop /\ UNCHANGED <<registry, regVars, sheetVars, cropVars>>
    \/ PCropSuggested /\ UNCHANGED <<registry, regVars, sheetVars, cropVars>>
    \/ PFitWhole /\ UNCHANGED <<registry, regVars, sheetVars, cropVars>>
    \/ PRemoveBackground /\ UNCHANGED <<registry, regVars, sheetVars, cropVars>>
    \/ PTagDpiAndReturn /\ UNCHANGED <<registry, regVars, sheetVars, cropVars>>
    \/ ReturnPrepare /\ UNCHANGED <<registry, regVars, sheetVars, cropVars>>

SpecRegistry == Init /\ [][NextRegistry]_vars
SpecSheet == Init /\ [][NextSheet]_vars
SpecCrop == Init /\ [][NextCrop]_vars
SpecPipeline == Init /\ [][NextPipeline]_vars

\* The loops of _generate_positions run to their end: no step is skipped for ever
FairSpecSheet == SpecSheet /\ WF_vars(NextSheet)

(***************************************************************************)
(* Properties of the registry                                              *)
(***************************************************************************)
\* Two characters that differ at most in letter case
SameLetter(c, d) == c = d \/ CharCode(c) = CharCode(d) + 32 \/ CharCode(d) = CharCode(c) + 32

\* Two strings that differ at most in letter case
SameIgnoringCase(s, t) == Len(s) = Len(t) /\ \A i \in 1..Len(s) : SameLetter(s[i], t[i])

\* C9: get_standard returns the default standard ("us") for None and for the
\* empty string; for a non-empty code it returns the registry entry whose key
\* spells the code in lower case, whatever the letter case of the code; when no
\* key does, it fails with a KeyError listing the keys in sorted order; and the
\* registry is never changed.
C9_GetStandard ==
    /\ registry = STANDARDS
    /\ r_pc \in {"returned", "raised"} =>
         IF IsNone(r_code) \/ Val(r_code) = <<>>
         THEN r_pc = "returned" /\ r_result.value = STANDARDS[KeyUs]
         ELSE /\ \A k \in DOMAIN STANDARDS :
                    SameIgnoringCase(k, Val(r_code)) =>
                        r_pc = "returned" /\ r_result.value = STANDARDS[k]
              /\ (\A k \in DOMAIN STANDARDS : ~SameIgnoringCase(k, Val(r_code))) =>
                    /\ r_pc = "raised"
                    /\ r_result.kind = "KeyError"
                    /\ r_result.available = <<KeyIndia, KeyUk, KeyUs>>

\* C9 witness: a code in mixed case has been resolved to the "india" entry
C9_Witness ==
    /\ r_pc = "returned"
    /\ r_code = Some(<<"I", "n", "D", "i", "A">>)
    /\ r_result.value.code = KeyIndia

(***************************************************************************)
(* Properties of the sheet layout                                          *)
(***************************************************************************)
\* _generate_positions has returned its list (to the caller of a direct call,
\* or to create_passport_sheet, which then pastes or has pasted)
GPReturned == s_pc = "paste" \/ (s_pc = "returned")

\* _generate_positions was entered and has returned or raised
GPFinished ==
    \/ GPReturned
    \/ s_pc = "raised" /\ s_result.what # "size_mismatch"

\* The claims' precondition on the arguments
GPPre(a) ==
    /\ a.photo_size[1] >= 1 /\ a.photo_size[2] >= 1
    /\ a.copies >= 1
    /\ a.margin_px >= 0

\* Two photo-sized rectangles share a pixel
Intersect(p, q, size) ==
    /\ p[1] < q[1] + size[1] /\ q[1] < p[1] + size[1]
    /\ p[2] < q[2] + size[2] /\ q[2] < p[2] + size[2]

\* A photo-sized rectangle lies inside the margins of the canvas
InsideMargins(p, a) ==
    /\ a.margin_px <= p[1] /\ p[1] + a.photo_size[1] <= a.canvas_size[1] - a.margin_px
    /\ a.margin_px <= p[2] /\ p[2] + a.photo_size[2] <= a.canvas_size[2] - a.margin_px

\* C1: the positions _generate_positions returns are pairwise non-overlapping
\* photo-sized rectangles, each inside [margin, canvas - margin] on both axes.
C1_NoOverlapInsideMargins ==
    (GPReturned /\ GPPre(s_args)) =>
        /\ \A i, j \in 1..Len(s_positions) :
               i # j => ~Intersect(s_positions[i], s_positions[j], s_args.photo_size)
        /\ \A i \in 1..Len(s_positions) : InsideMargins(s_positions[i], s_args)

\* C1 witness: a direct call with a margin returned cells in two rows and two columns
C1_Witness ==
    /\ s_pc = "returned" /\ s_caller = "direct"
    /\ s_args.margin_px >= 1
    /\ Len(s_positions) >= 4
    /\ s_positions[1][2] = s_positions[2][2]
    /\ s_positions[1][2] # s_positions[3][2]

\* C2 (the claim as stated): a 600x600 photo, standard "us", copies unspecified
\* gives a sheet with exactly 4 copies at distinct, non-overlapping positions
\* inside the canvas.
C2_UsDefaultSheetHasFour ==
    (s_caller = "sheet" /\ s_pc \in {"returned", "raised"}
       /\ s_req = [photo |-> <<600, 600>>, copies |-> None, standard |-> KeyUs]) =>
        /\ s_pc = "returned"
        /\ Len(s_pasted) = 4
        /\ \A i, j \in 1..Len(s_pasted) :
               i # j => ~Intersect(s_pasted[i], s_pasted[j], s_args.photo_size)
        /\ \A i \in 1..Len(s_pasted) :
               /\ 0 <= s_pasted[i][1] /\ s_pasted[i][1] + 600 <= s_args.canvas_size[1]
               /\ 0 <= s_pasted[i][2] /\ s_pasted[i][2] + 600 <= s_args.canvas_size[2]

\* C8 (the claim as stated): create_passport_sheet never returns a sheet with
\* fewer copies than the target count; it fails instead.
C8_NeverFewerThanTarget ==
    (s_caller = "sheet" /\ s_pc = "returned") => Len(s_pasted) >= s_args.copies

\* The number of grid columns / rows whose cell fits inside the margins
Cols(a) ==
    Cardinality({c \in 0..a.canvas_size[1] :
        a.margin_px + c * (a.photo_size[1] + a.margin_px) + a.photo_size[1]
            <= a.canvas_size[1] - a.margin_px})
Rows(a) ==
    Cardinality({r \in 0..a.canvas_size[2] :
        a.margin_px + r * (a.photo_size[2] + a.margin_px) + a.photo_size[2]
            <= a.canvas_size[2] - a.margin_px})

\* The k-th cell of the grid in row-major order, k = 1, 2, ...
GridCell(a, k) ==
    <<a.margin_px + ((k - 1) % Cols(a)) * (a.photo_size[1] + a.margin_px),
      a.margin_px + ((k - 1) \div Cols(a)) * (a.photo_size[2] + a.margin_px)>>

\* The outcome C10 describes
C10_Outcome ==
    (GPFinished /\ GPPre(s_args)) =>
        IF s_args.photo_size[1] > s_args.canvas_size[1] \/ s_args.photo_size[2] > s_args.canvas_size[2]
        THEN s_pc = "raised" /\ s_result.what = "photo_larger_than_canvas"
        ELSE IF Rows(s_args) * Cols(s_args) = 0
             THEN s_pc = "raised" /\ s_result.what = "unable_to_place_any"
             ELSE /\ GPReturned
                  /\ Len(s_positions) = Min(s_args.copies, Rows(s_args) * Cols(s_args))
                  /\ Len(s_positions) <= s_args.copies
                  /\ \A k \in 1..Len(s_positions) : s_positions[k] = GridCell(s_args, k)

\* _generate_positions is running
GPRunning == s_pc \in {"gp_check", "gp_outer", "gp_inner", "gp_after"}

\* C10: for a positive photo size, margin >= 0 and copies >= 1,
\* _generate_positions terminates, and it ends with the "photo larger than
\* canvas" error if the photo exceeds the canvas, else with the "cannot place
\* any" error if no cell fits inside the margins, else with the first
\* min(copies, rows*cols) cells of the grid in row-major order, never more
\* than copies of them.
C10_TerminatesWithGridPrefix ==
    /\ []C10_Outcome
    /\ (GPRunning /\ GPPre(s_args)) ~> GPFinished

\* C10 witness: a direct call stopped early, in the second row, with cells left over
C10_Witness ==
    /\ s_pc = "returned" /\ s_caller = "direct"
    /\ Len(s_positions) = s_args.copies
    /\ s_args.copies < Rows(s_args) * Cols(s_args)
    /\ Cols(s_args) >= 2
    /\ Len(s_positions) > Cols(s_args)
    /\ Len(s_positions) % Cols(s_args) # 0

(***************************************************************************)
(* Properties of the crop geometry                                         *)
(***************************************************************************)
\* suggest_crop was called directly and returned a box
SuggestionReturned ==
    c_pc = "returned" /\ c_call.op = "suggest_crop" /\ ~IsNone(c_result.value)

\* 0 <= left < right <= image.width and 0 <= top < bottom <= image.height
InBounds(box, image) ==
    /\ 0 <= box[1] /\ box[1] < box[3] /\ box[3] <= image[1]
    /\ 0 <= box[2] /\ box[2] < box[4] /\ box[4] <= image[2]

\* The box has the standard's aspect ratio within a rounding tolerance of one
\* pixel: some real height within 1 of the box's height, times the ratio, is
\* within 1 of the box's width.
RatioWithinOnePixel(box, std) ==
    /\ (BoxHeight(box) - 1) * std.width_px <= (BoxWidth(box) + 1) * std.height_px
    /\ (BoxHeight(box) + 1) * std.width_px >= (BoxWidth(box) - 1) * std.height_px

\* The box suggest_crop built for the call, before clamping
CallUnclamped == UnclampedBox(LargestFace(c_call.faces), STANDARDS[c_call.standard])

\* C3 (the claim as stated): the box suggest_crop returns is inside the image,
\* with left < right and top < bottom, and has the standard's aspect ratio
\* within a rounding tolerance of 1 pixel.
C3_InBoundsWithRatio ==
    SuggestionReturned =>
        /\ InBounds(Val(c_result.value), c_call.image)
        /\ RatioWithinOnePixel(Val(c_result.value), STANDARDS[c_call.standard])

\* C3 (amended): the box suggest_crop returns is inside the image, with
\* left < right and top < bottom; it has the standard's aspect ratio within a
\* rounding tolerance of 1 pixel whenever the box built around the face is no
\* wider and no taller than the image; a box wider (taller) than the image is
\* cut to the image's full width (height).
C3_InBoundsRatioWhenFits ==
    SuggestionReturned =>
        LET box == Val(c_result.value)
            image == c_call.image
        IN /\ InBounds(box, image)
           /\ (BoxWidth(CallUnclamped) <= image[1] /\ BoxHeight(CallUnclamped) <= image[2]) =>
                  RatioWithinOnePixel(box, STANDARDS[c_call.standard])
           /\ BoxWidth(CallUnclamped) > image[1] => box[1] = 0 /\ box[3] = image[1]
           /\ BoxHeight(CallUnclamped) > image[2] => box[2] = 0 /\ box[4] = image[2]

\* C3 witness: a box that fits the image but was built partly outside it has
\* been moved inside
C3_Witness ==
    /\ SuggestionReturned
    /\ c_call.standard = KeyUk
    /\ CallUnclamped[1] < 0
    /\ CallUnclamped[4] > c_call.image[2]
    /\ BoxWidth(CallUnclamped) <= c_call.image[1]
    /\ BoxHeight(CallUnclamped) <= c_call.image[2]
    /\ Val(c_result.value)[1] = 0
    /\ Val(c_result.value)[4] = c_call.image[2]

\* crop_image was called directly and has returned or raised
CropImageFinished == c_pc \in {"returned", "raised"} /\ c_call.op = "crop_image"

\* C4: crop_image fails with the "crop too small" error, before any
\* resampling, exactly when the box width is below the standard's width_px or
\* the box height below its height_px; otherwise it returns an image of
\* exactly the standard's size.
C4_CropTooSmallOrExactSize ==
    CropImageFinished =>
        LET box == c_call.box
            std == STANDARDS[c_call.standard]
            short == (box[3] - box[1] < std.width_px) \/ (box[4] - box[2] < std.height_px)
        IN /\ short <=> (c_pc = "raised")
           /\ c_pc = "raised" =>
                 /\ c_result.kind = "ValueError" /\ c_result.what = "crop_too_small"
                 /\ ~c_result.resampled
           /\ c_pc = "returned" => c_result.size = <<std.width_px, std.height_px>>

\* C4 witness: an in-bounds box larger than the "uk" size in one dimension and
\* equal to it in the other has been cropped to 413x531
C4_Witness ==
    /\ CropImageFinished /\ c_pc = "returned"
    /\ c_call.standard = KeyUk
    /\ c_call.image = <<1000, 1200>>
    /\ c_call.box = <<50, 50, 750, 581>>
    /\ c_result.size = <<413, 531>>

(***************************************************************************)
(* Properties of prepare_passport_photo                                    *)
(***************************************************************************)
PrepareFinished == p_pc \in {"returned", "raised"}

\* The input is below the standard's size in width or in height
InputBelowTarget ==
    \/ p_req.image[1] < STANDARDS[p_req.standard].width_px
    \/ p_req.image[2] < STANDARDS[p_req.standard].height_px

\* C5: when the input is below the standard's width_px or height_px,
\* prepare_passport_photo fails with the "input too small" error and has called
\* nothing but the validation (no detector, crop, fit or segmenter), whatever
\* crop_box and auto_crop are; when both dimensions meet the target the
\* validation raises nothing.
C5_InputTooSmallFirst ==
    p_pc \notin {"idle", "validate"} =>
        IF InputBelowTarget
        THEN /\ p_pc = "raised"
             /\ p_result.kind = "ValueError" /\ p_result.what = "input_too_small"
             /\ p_calls = <<"validate_image_size">>
        ELSE /\ p_calls[1] = "validate_image_size"
             /\ p_pc = "raised" => p_result.what # "input_too_small"
             /\ Len(p_calls) = 1 => p_pc = "crop"

\* C5 witness: 400x400 against "uk" with a crop box and auto_crop has failed
C5_Witness ==
    /\ p_pc = "raised"
    /\ p_req.image = <<400, 400>> /\ p_req.standard = KeyUk
    /\ ~IsNone(p_req.crop_box) /\ p_req.auto_crop
    /\ p_result.what = "input_too_small"

\* The calls of the crop step, given what the detector did
ExpectedCropCalls ==
    IF ~IsNone(p_req.crop_box) THEN <<"crop_image">>
    ELSE IF p_req.auto_crop
         THEN <<"suggest_crop", "detector">> \o
              (IF Val(p_detected).kind = "raise" THEN <<>>
               ELSE IF Val(p_detected).faces # <<>> THEN <<"crop_image">>
               ELSE <<"fit">>)
         ELSE <<"fit">>

\* The calls after the crop step: none unless it succeeded
ExpectedTailCalls ==
    IF IsNone(p_cropped) THEN <<>>
    ELSE IF p_pc = "returned" THEN <<"segmenter", "dpi">>
    ELSE <<"segmenter">>

\* C6: in a run that passed validation, a supplied crop box goes to crop_image
\* and the detector is not invoked, even when auto_crop is true; otherwise with
\* auto_crop the detector is invoked once, a found face leads to suggest_crop's
\* box going to crop_image and no face to the aspect-fit of the whole image;
\* otherwise the whole image is fitted.  The segmenter is invoked exactly once
\* and only after the crop step succeeded, the DPI tag comes last, and a "crop
\* too small" error reaches the caller with no segmenter call.
C6_CropChoiceAndOrder ==
    (PrepareFinished /\ ~InputBelowTarget) =>
        /\ p_calls = <<"validate_image_size">> \o ExpectedCropCalls \o ExpectedTailCalls
        /\ p_pc = "returned" => ~IsNone(p_cropped)
        /\ (~IsNone(p_req.crop_box)
              /\ (BoxWidth(Val(p_req.crop_box)) < STANDARDS[p_req.standard].width_px
                  \/ BoxHeight(Val(p_req.crop_box)) < STANDARDS[p_req.standard].height_px)) =>
             /\ p_pc = "raised" /\ p_result.what = "crop_too_small"
             /\ \A i \in 1..Len(p_calls) : p_calls[i] # "segmenter"
        /\ (p_pc = "raised" /\ p_result.what = "crop_too_small") =>
             \A i \in 1..Len(p_calls) : p_calls[i] # "segmenter"

\* C6 witness: a crop box together with auto_crop gave a photo
C6_Witness ==
    /\ p_pc = "returned"
    /\ ~IsNone(p_req.crop_box) /\ p_req.auto_crop
    /\ p_calls = <<"validate_image_size", "crop_image", "segmenter", "dpi">>

\* C7 (the claim as stated): with no crop box and auto_crop, a detector that
\* finds no face or that raises is not fatal: the whole image is fitted and
\* the run goes on to the segmenter, so that it ends with a photo unless the
\* segmenter fails.
C7_DetectorNeverFatal ==
    (PrepareFinished /\ ~IsNone(p_detected)
       /\ (IF Val(p_detected).kind = "raise" THEN TRUE ELSE Val(p_detected).faces = <<>>)) =>
        /\ \E i \in 1..Len(p_calls) : p_calls[i] = "fit"
        /\ \E i \in 1..Len(p_calls) : p_calls[i] = "segmenter"
        /\ p_pc = "returned" \/ p_result.kind = "SegmenterError"

(***************************************************************************)
(* Properties of the box suggest_crop builds before clamping               *)
(***************************************************************************)
Abs(n) == IF n < 0 THEN -n ELSE n

\* The face suggest_crop was called for
CallFace == LargestFace(c_call.faces)

\* H = max(h * padding, (w * padding) / ratio) and H * ratio as fractions
\* [hn / hd, wn / wd], from the numbers of the face and of the standard
PaddedSize(face, std) ==
    IF face.h * std.width_px >= face.w * std.height_px
    THEN [hn |-> face.h * std.pad_num, hd |-> std.pad_den,
          wn |-> face.h * std.pad_num * std.width_px, wd |-> std.pad_den * std.height_px]
    ELSE [hn |-> face.w * std.pad_num * std.height_px, hd |-> std.pad_den * std.width_px,
          wn |-> face.w * std.pad_num, wd |-> std.pad_den]

\* c is a nearest integer of centre2 / 2 + sign * (n / d) / 2
NearestToEdge(c, centre2, sign, n, d) == Abs(2 * d * c - d * centre2 - sign * n) <= d

\* The box is the padded box of the face centred at (cx2 / 2, cy2 / 2), each
\* coordinate rounded to a nearest integer
IsRoundedBoxAround(box, cx2, cy2, size) ==
    /\ NearestToEdge(box[1], cx2, -1, size.wn, size.wd)
    /\ NearestToEdge(box[2], cy2, -1, size.hn, size.hd)
    /\ NearestToEdge(box[3], cx2, 1, size.wn, size.wd)
    /\ NearestToEdge(box[4], cy2, 1, size.hn, size.hd)

\* The claim's example: "us" and the face (100, 120, 200, 200) give (30, 50, 370, 390)
ScenarioBoxAsClaimed ==
    (c_call.standard = KeyUs /\ CallFace = ScenarioFace) => CallUnclamped = <<30, 50, 370, 390>>

\* C11 (the claim as stated): the box built before clamping has height
\* H = max(h*padding, (w*padding)/ratio) and width H*ratio, is centred at
\* (x + w/2, y + h/2), and has each coordinate rounded to the nearest integer;
\* for "us" and the face (100, 120, 200, 200) it is (30, 50, 370, 390).
C11_CentredAtExactCentre ==
    SuggestionReturned =>
        /\ IsRoundedBoxAround(CallUnclamped, 2 * CallFace.x + CallFace.w, 2 * CallFace.y + CallFace.h,
                              PaddedSize(CallFace, STANDARDS[c_call.standard]))
        /\ ScenarioBoxAsClaimed

\* C11 (amended): the box built before clamping has height
\* H = max(h*padding, (w*padding)/ratio) and width H*ratio, is centred at the
\* integer point (x + floor(w/2), y + floor(h/2)), and has each coordinate
\* rounded to the nearest integer; for "us" and the face (100, 120, 200, 200)
\* it is (30, 50, 370, 390).
C11_CentredAtIntegerCentre ==
    SuggestionReturned =>
        /\ IsRoundedBoxAround(CallUnclamped,
                              2 * (CallFace.x + CallFace.w \div 2), 2 * (CallFace.y + CallFace.h \div 2),
                              PaddedSize(CallFace, STANDARDS[c_call.standard]))
        /\ ScenarioBoxAsClaimed

\* C11 witness: a box was built for a "uk" face of odd width and odd height,
\* whose centre is no integer point
C11_Witness ==
    /\ SuggestionReturned
    /\ c_call.standard = KeyUk
    /\ CallFace.w = 151 /\ CallFace.h = 353
    /\ c_call.image = <<1000, 1200>>

\* The example of C11 is among the calls checked
C11_ScenarioReached ==
    /\ SuggestionReturned
    /\ c_call.standard = KeyUs /\ CallFace = ScenarioFace
    /\ CallUnclamped = <<30, 50, 370, 390>>

(***************************************************************************)
(* Properties of the clamping in suggest_crop                              *)
(***************************************************************************)
\* The low edge of one axis after the two translations (lines 83-97), before
\* the floor of lines 99-100
LowBeforeFloor(lo, hi, extent) ==
    LET a == ShiftToZero(lo, hi) IN ShiftInside(a[1], a[2], extent)[1]

\* C12: when the box built around the face is no wider and no taller than the
\* image, clamping only translates it: the returned box has the width and the
\* height of the unclamped box and lies inside the image; and the final floor
\* of left (top) at 0 changes the box only when the unclamped box is wider
\* (taller) than the image.
C12_ClampOnlyTranslates ==
    SuggestionReturned =>
        LET box == Val(c_result.value)
            un == CallUnclamped
            image == c_call.image
        IN /\ (BoxWidth(un) <= image[1] /\ BoxHeight(un) <= image[2]) =>
                  /\ BoxWidth(box) = BoxWidth(un)
                  /\ BoxHeight(box) = BoxHeight(un)
                  /\ 0 <= box[1] /\ box[3] <= image[1]
                  /\ 0 <= box[2] /\ box[4] <= image[2]
           /\ box[1] # LowBeforeFloor(un[1], un[3], image[1]) => BoxWidth(un) > image[1]
           /\ box[2] # LowBeforeFloor(un[2], un[4], image[2]) => BoxHeight(un) > image[2]

\* C12 witness: a box that fits the image was built beyond its right edge and
\* above its top edge, and came back moved by both translations
C12_Witness ==
    /\ SuggestionReturned
    /\ BoxWidth(CallUnclamped) <= c_call.image[1]
    /\ BoxHeight(CallUnclamped) <= c_call.image[2]
    /\ CallUnclamped[3] > c_call.image[1]
    /\ CallUnclamped[2] < 0
    /\ Val(c_result.value)[3] = c_call.image[1]
    /\ Val(c_result.value)[2] = 0
    /\ Val(c_result.value)[1] = CallUnclamped[1] - (CallUnclamped[3] - c_call.image[1])

\* The floor of lines 99-100 has changed a box: one wider than the image
C12_FloorActed ==
    /\ SuggestionReturned
    /\ Val(c_result.value)[1] # LowBeforeFloor(CallUnclamped[1], CallUnclamped[3], c_call.image[1])

=============================================================================
